---- MODULE Spec2Model ----
(***************************************************************************)
(* State-machine model of the auto-aiming pipeline (Aiming/Aim.py), the    *)
(* PnP distance estimator (Aiming/DistEst/pnp_solver.py) and the split     *)
(* video recorder (Utils/recorder_utils.py).                               *)
(*                                                                         *)
(* Python's None is the empty sequence <<>>; a present scalar x is <<x>>;  *)
(* a present 3D point is a 3-tuple.  Angles of the gimbal are counted in   *)
(* quarter turns, distances and pitches in integer units.                  *)
(***************************************************************************)
EXTENDS Integers, Sequences, FiniteSets

VARIABLES
    \* ---- Aim.process_one: one call in progress or finished ----
    pc,                       \* "idle" | "preprocess" | "tracked" | "done"
    frame,                    \* number of process_one calls started
    pred_list,                \* argument: the frame's detections
    enemy_team,               \* argument
    stm32_state_dict,         \* argument: [cur_yaw, cur_pitch]
    ret_list,                 \* preprocess: the list being built
    preStatus,                \* preprocess: "notcalled" | "running" | "returned" | "raised"
    lastEst,                  \* outcome of the latest estimate_position call
    estCount,                 \* estimate_position calls made in this call
    observed_armors,          \* what the tracker was handed (<<>> before)
    trackerGimbal,            \* the gimbal state the tracker was handed
    trackerCalls,             \* tracker.process_one invocations in this call
    estAtTrack,               \* estCount at the moment the tracker was invoked
    trackerState,             \* the tracker's cross-frame state (frames seen)
    trackerAtCall,            \* trackerState when this call started
    target_dist_angle_tuple,  \* the tracker's return value
    calibCalls,               \* distances the gravity calibrator was called with
    result,                   \* outcome of the call
    \* ---- split_video_recorder ----
    cur_data_folder,          \* index of the session folder made by __init__
    cur_video_writer,         \* <<>> or <<clip index the writer's file is named by>>
    cur_video_clip_idx,
    writer_start_time,        \* <<>> until the first writer is opened
    now,                      \* the wall clock, time.time()
    openWriters,              \* file names with an unreleased writer
    openedNames,              \* every file name a writer was opened on, in order
    closedCount,              \* writers released so far
    badWrite,                 \* a frame went to something that is no open writer
    lastCall                  \* observation of the latest process_one_frame call

aimVars == <<pc, frame, pred_list, enemy_team, stm32_state_dict, ret_list,
             preStatus, lastEst, estCount, observed_armors, trackerGimbal,
             trackerCalls, estAtTrack, trackerState, trackerAtCall,
             target_dist_angle_tuple, calibCalls, result>>

recVars == <<cur_data_folder, cur_video_writer, cur_video_clip_idx,
             writer_start_time, now, openWriters, openedNames, closedCount,
             badWrite, lastCall>>

vars == <<aimVars, recVars>>

None == <<>>

\* ------------------------------------------------------------------ bounds
MaxDets == 2
MaxFrames == 2
MaxFolder == 2
MaxTime == 44

\* ------------------------------------------------------------------ inputs
Teams == {"red", "blue", "green"}

\* What cv2.solvePnP (and the Euler conversion of its rotation) gives for a
\* detection's four keypoints: no pose, a pose, or a pose whose yaw is NaN.
SolverOutcomes ==
    { [retval |-> FALSE, tvec |-> <<0, 0, 0>>, yaw |-> 0, yaw_nan |-> FALSE],
      [retval |-> TRUE,  tvec |-> <<1, 2, 3>>, yaw |-> 1, yaw_nan |-> FALSE],
      [retval |-> TRUE,  tvec |-> <<1, 2, 3>>, yaw |-> 0, yaw_nan |-> TRUE] }

ArmorLabels == { [cls |-> "small", bbox |-> "bboxA"],
                 [cls |-> "large", bbox |-> "bboxB"] }

Armors == { [cls |-> l.cls, bbox |-> l.bbox, pnp |-> s] :
                l \in ArmorLabels, s \in SolverOutcomes }

PredLists == UNION { [1..n -> Armors] : n \in 0..MaxDets }

\* Gimbal angles, in quarter turns.
GimbalTurns == {0, 1}

GimbalStates == [cur_yaw : GimbalTurns, cur_pitch : GimbalTurns]

\* Values a tracker triple is made of.
TargetDists == {0, 3}

TargetPitches == {10}

TargetYaws == {5, 6}



\* The tracker (Aiming/Tracking) reports no target (None), a triple without
\* a distance, or a (distance, pitch, yaw) triple.
TrackerReturns ==
    { [isNone |-> TRUE,  dist |-> None, pitch |-> None, yaw |-> None],
      [isNone |-> FALSE, dist |-> None, pitch |-> None, yaw |-> None] }
    \cup { [isNone |-> FALSE, dist |-> <<d>>, pitch |-> <<p>>, yaw |-> <<y>>] :
              d \in TargetDists, p \in TargetPitches, y \in TargetYaws }

\* ------------------------------------------------- external collaborators
\* TrajModel.get_camera_barrel_T: the fixed rigid camera -> barrel transform.
CameraBarrelOffset == <<1, 0, 1>>

GetCameraBarrelT == CameraBarrelOffset

CameraToBarrel(p) ==
    IF p = None THEN None
    ELSE <<p[1] + GetCameraBarrelT[1], p[2] + GetCameraBarrelT[2],
           p[3] + GetCameraBarrelT[3]>>

\* One quarter turn about the vertical axis / about the lateral axis.
RotYaw(p) == <<0 - p[2], p[1], p[3]>>

RotPitch(p) == <<p[3], p[2], 0 - p[1]>>

RECURSIVE Turn(_, _, _)
Turn(axis, k, p) ==
    IF k = 0 THEN p
    ELSE Turn(axis, k - 1, IF axis = "yaw" THEN RotYaw(p) ELSE RotPitch(p))

\* TrajModel.barrel_to_robot_T: undo the gimbal's rotation; a null pose
\* stays a null pose.
BarrelToRobotT(gimbal_yaw, gimbal_pitch, armor_xyz) ==
    IF armor_xyz = None THEN None
    ELSE Turn("yaw", gimbal_yaw, Turn("pitch", gimbal_pitch, armor_xyz))

\* TrajModel.calibrate_pitch_gravity: zero at zero, non-decreasing.
CalibratePitchGravity(target_dist) == 2 * target_dist

\* --------------------------------------------------------- pnp_estimator
\* estimate_position: (None, None) when solvePnP reports no pose; the
\* assertion on the yaw raises when it is NaN; otherwise the translation
\* vector with its axes permuted, and the yaw.
EstimatePosition(armor) ==
    IF ~armor.pnp.retval
    THEN [raised |-> FALSE, xyz |-> None, yaw |-> None]
    ELSE IF armor.pnp.yaw_nan
    THEN [raised |-> TRUE, xyz |-> None, yaw |-> None]
    ELSE [raised |-> FALSE,
          xyz |-> <<armor.pnp.tvec[3], armor.pnp.tvec[1], armor.pnp.tvec[2]>>,
          yaw |-> <<armor.pnp.yaw>>]

\* ------------------------------------------------------------------- Aim
\* One iteration of preprocess's loop, given a pose estimate that returned:
\* the tuple appended to ret_list.  The camera -> barrel transform is
\* fetched by preprocess but never applied.
ObservedArmor(armor, est, gimbal_yaw, gimbal_pitch) ==
    [armor_type |-> armor.cls,
     armor_xyz  |-> BarrelToRobotT(gimbal_yaw, gimbal_pitch, est.xyz),
     bbox       |-> armor.bbox,
     armor_yaw  |-> est.yaw]

\* process_one's precondition.
TeamOK_AnyTeam(team) == TRUE

TeamOK(team) == team \in {"blue", "red"}

PosteriorCalibration_AddDrop(raw_pitch, raw_yaw, target_dist) ==
    <<raw_pitch + CalibratePitchGravity(target_dist), raw_yaw>>

PosteriorCalibration(raw_pitch, raw_yaw, target_dist) ==
    <<raw_pitch - CalibratePitchGravity(target_dist), raw_yaw>>

NoResult == [kind |-> "pending", abs_yaw |-> None, abs_pitch |-> None,
             uncalibrated_yaw |-> None, uncalibrated_pitch |-> None,
             target_dist |-> None]

Raised == [NoResult EXCEPT !.kind = "AssertionError"]

ReturnedNone == [NoResult EXCEPT !.kind = "None"]

\* process_one after the tracker has returned t: what it returns (ret) and
\* the distances it called the gravity calibrator with on the way (calib).
ProcessOneReturn_NoTupleCheck(t) ==
    IF t.dist = None /\ ~t.isNone
    THEN [ret |-> ReturnedNone, calib |-> <<>>]
    ELSE [ret |-> [kind |-> "AimResult", abs_yaw |-> t.yaw,
                   abs_pitch |-> t.pitch, uncalibrated_yaw |-> t.yaw,
                   uncalibrated_pitch |-> t.pitch, target_dist |-> t.dist],
          calib |-> <<t.dist>>]

ProcessOneReturn_NoDistCheck(t) ==
    IF t.isNone
    THEN [ret |-> ReturnedNone, calib |-> <<>>]
    ELSE [ret |-> [kind |-> "AimResult", abs_yaw |-> t.yaw,
                   abs_pitch |-> t.pitch, uncalibrated_yaw |-> t.yaw,
                   uncalibrated_pitch |-> t.pitch, target_dist |-> t.dist],
          calib |-> <<t.dist>>]

ProcessOneReturn(t) ==
    IF t.isNone \/ t.dist = None
    THEN [ret |-> ReturnedNone, calib |-> <<>>]
    ELSE LET cal == PosteriorCalibration(t.pitch[1], t.yaw[1], t.dist[1])
         IN  [ret |-> [kind |-> "AimResult",
                       abs_yaw |-> <<cal[2]>>,
                       abs_pitch |-> <<cal[1]>>,
                       uncalibrated_yaw |-> t.yaw,
                       uncalibrated_pitch |-> t.pitch,
                       target_dist |-> t.dist],
              calib |-> <<t.dist>>]

NoEst == [raised |-> FALSE, xyz |-> None, yaw |-> None]

AimInit ==
    /\ pc = "idle"
    /\ frame = 0
    /\ pred_list = <<>>
    /\ enemy_team = "red"
    /\ stm32_state_dict = [cur_yaw |-> 0, cur_pitch |-> 0]
    /\ ret_list = <<>>
    /\ preStatus = "notcalled"
    /\ lastEst = NoEst
    /\ estCount = 0
    /\ observed_armors = <<>>
    /\ trackerGimbal = None
    /\ trackerCalls = 0
    /\ estAtTrack = 0
    /\ trackerState = 0
    /\ trackerAtCall = 0
    /\ target_dist_angle_tuple = [isNone |-> TRUE, dist |-> None,
                                  pitch |-> None, yaw |-> None]
    /\ calibCalls = <<>>
    /\ result = NoResult

\* process_one is entered: the assertion on enemy_team, then preprocess
\* reads the gimbal angles and starts with an empty ret_list.
CallProcessOne(pl, team, st) ==
    /\ pc = "idle"
    /\ frame < MaxFrames
    /\ frame' = frame + 1
    /\ pred_list' = pl
    /\ enemy_team' = team
    /\ stm32_state_dict' = st
    /\ ret_list' = <<>>
    /\ lastEst' = NoEst
    /\ estCount' = 0
    /\ observed_armors' = <<>>
    /\ trackerGimbal' = None
    /\ trackerCalls' = 0
    /\ estAtTrack' = 0
    /\ trackerAtCall' = trackerState
    /\ target_dist_angle_tuple' = [isNone |-> TRUE, dist |-> None,
                                   pitch |-> None, yaw |-> None]
    /\ calibCalls' = <<>>
    /\ IF TeamOK(team)
       THEN /\ pc' = "preprocess"
            /\ preStatus' = "running"
            /\ result' = NoResult
       ELSE /\ pc' = "done"
            /\ preStatus' = "notcalled"
            /\ result' = Raised
    /\ UNCHANGED <<trackerState, recVars>>

\* One iteration of preprocess's loop over pred_list.
PreprocessArmor ==
    /\ pc = "preprocess"
    /\ Len(ret_list) < Len(pred_list)
    /\ LET armor == pred_list[Len(ret_list) + 1]
           est   == EstimatePosition(armor)
       IN  /\ lastEst' = est
           /\ estCount' = estCount + 1
           /\ IF est.raised
              THEN /\ pc' = "done"
                   /\ preStatus' = "raised"
                   /\ result' = Raised
                   /\ UNCHANGED ret_list
              ELSE /\ ret_list' = Append(ret_list,
                          ObservedArmor(armor, est, stm32_state_dict.cur_yaw,
                                        stm32_state_dict.cur_pitch))
                   /\ UNCHANGED <<pc, preStatus, result>>
    /\ UNCHANGED <<frame, pred_list, enemy_team, stm32_state_dict,
                   observed_armors, trackerGimbal, trackerCalls, estAtTrack,
                   trackerState, trackerAtCall, target_dist_angle_tuple,
                   calibCalls, recVars>>

\* preprocess returns ret_list and tracker.process_one is called with it and
\* with the frame's gimbal state; ret is what the tracker answers.
InvokeTracker(ret) ==
    /\ pc = "preprocess"
    /\ Len(ret_list) = Len(pred_list)
    /\ preStatus' = "returned"
    /\ observed_armors' = ret_list
    /\ trackerGimbal' = <<stm32_state_dict>>
    /\ trackerCalls' = trackerCalls + 1
    /\ estAtTrack' = estCount
    /\ trackerState' = trackerState + 1
    /\ target_dist_angle_tuple' = ret
    /\ pc' = "tracked"
    /\ UNCHANGED <<frame, pred_list, enemy_team, stm32_state_dict, ret_list,
                   lastEst, estCount, trackerAtCall, calibCalls, result,
                   recVars>>

\* The None check, the posterior calibration and the return.
FinishProcessOne ==
    /\ pc = "tracked"
    /\ calibCalls' = ProcessOneReturn(target_dist_angle_tuple).calib
    /\ result' = ProcessOneReturn(target_dist_angle_tuple).ret
    /\ pc' = "done"
    /\ UNCHANGED <<frame, pred_list, enemy_team, stm32_state_dict, ret_list,
                   preStatus, lastEst, estCount, observed_armors,
                   trackerGimbal, trackerCalls, estAtTrack, trackerState,
                   trackerAtCall, target_dist_angle_tuple, recVars>>


\* The caller's frame loop has consumed the outcome; the call's arguments,
\* locals and result are gone, only the tracker's state is carried over.
ReturnToCaller ==
    /\ pc = "done"
    /\ pc' = "idle"
    /\ pred_list' = <<>>
    /\ enemy_team' = "red"
    /\ stm32_state_dict' = [cur_yaw |-> 0, cur_pitch |-> 0]
    /\ ret_list' = <<>>
    /\ preStatus' = "notcalled"
    /\ lastEst' = NoEst
    /\ estCount' = 0
    /\ observed_armors' = <<>>
    /\ trackerGimbal' = None
    /\ trackerCalls' = 0
    /\ estAtTrack' = 0
    /\ trackerAtCall' = trackerState
    /\ target_dist_angle_tuple' = [isNone |-> TRUE, dist |-> None,
                                   pitch |-> None, yaw |-> None]
    /\ calibCalls' = <<>>
    /\ result' = NoResult
    /\ UNCHANGED <<frame, trackerState, recVars>>

\* ------------------------------------------------- split_video_recorder
TIME_PER_CLIP == 20

\* 0.5 GB of free space, in MiB: free / 1024 / 1024 / 1024 < 0.5.
FreeFloorMiB == 512

\* 500, the figure of the comment beside the test rather than of the test.
CommentFloorMiB == 500

FreeSpaces == {CommentFloorMiB, FreeFloorMiB - 1, FreeFloorMiB}

Images == {"None", "bad_shape", "ok"}

\* Clock increments between two readings of time.time().
Dts == {0, 1, TIME_PER_CLIP, TIME_PER_CLIP + 1}

NotEnoughSpace_CommentFloor(free) == free < CommentFloorMiB

NotEnoughSpace(free) == free < FreeFloorMiB

\* __init__: the new session folder is numbered one past the largest
\* all-digit folder name, or 1 when there is none.
SetMax(S) ==
    IF S = {} THEN 0
    ELSE LET x == CHOOSE y \in S : \A z \in S : z <= y IN x

NewFolderIdx(fn_list) == SetMax(fn_list) + 1

\* The clip index after an open writer was released.
NextClipIdx_Stuck(idx) == idx

NextClipIdx(idx) == idx + 1

NoCall == [called |-> FALSE, free |-> FreeFloorMiB, hadWriter |-> FALSE,
           wrote |-> FALSE, opened |-> FALSE, idxBefore |-> 0,
           outcome |-> "none"]

RecInit ==
    /\ \E fn_list \in SUBSET (1..MaxFolder) :
          cur_data_folder = NewFolderIdx(fn_list)
    /\ cur_video_writer = None
    /\ cur_video_clip_idx = 0
    /\ writer_start_time = None
    /\ now = 0
    /\ openWriters = {}
    /\ openedNames = <<>>
    /\ closedCount = 0
    /\ badWrite = FALSE
    /\ lastCall = NoCall

\* process_one_frame(img), called dt after the previous clock reading, with
\* `free` MiB of disk free; dt2 passes between the writer's start and the
\* test that ends the clip.
ProcessOneFrame(free, img, dt, dt2) ==
    /\ now + dt + dt2 <= MaxTime
    /\ LET t1        == now + dt
           t2        == t1 + dt2
           hadWriter == cur_video_writer # None
           idle      == ~hadWriter /\ NotEnoughSpace(free)
           opens     == ~hadWriter /\ ~NotEnoughSpace(free)
           writer    == IF opens THEN <<cur_video_clip_idx>> ELSE cur_video_writer
           start     == IF opens THEN <<t1>> ELSE writer_start_time
           openNow   == IF opens THEN openWriters \cup {cur_video_clip_idx}
                        ELSE openWriters
           imgOK     == img = "ok"
           writes    == ~idle /\ imgOK
           expires   == writes /\ t2 - start[1] > TIME_PER_CLIP
       IN  /\ now' = IF idle THEN now + dt ELSE IF writes THEN t2 ELSE t1
           /\ openedNames' = IF opens THEN Append(openedNames, cur_video_clip_idx)
                             ELSE openedNames
           /\ badWrite' = (badWrite \/ (writes /\ (writer = None \/ writer[1] \notin openNow)))
           /\ cur_video_writer' = IF expires THEN None ELSE writer
           /\ writer_start_time' = start
           /\ openWriters' = IF expires THEN openNow \ {writer[1]} ELSE openNow
           /\ closedCount' = IF expires THEN closedCount + 1 ELSE closedCount
           /\ cur_video_clip_idx' = IF expires THEN NextClipIdx(cur_video_clip_idx)
                                    ELSE cur_video_clip_idx
           /\ lastCall' = [called |-> TRUE, free |-> free, hadWriter |-> hadWriter,
                           wrote |-> writes, opened |-> opens,
                           idxBefore |-> cur_video_clip_idx,
                           outcome |-> IF idle \/ imgOK THEN "returned"
                                       ELSE "AssertionError"]
    /\ UNCHANGED <<cur_data_folder, aimVars>>

\* ------------------------------------------------------- specifications
Init == AimInit /\ RecInit

AimNext ==
    \/ /\ pc = "idle"
       /\ \E pl \in PredLists, team \in Teams, st \in GimbalStates :
             CallProcessOne(pl, team, st)
    \/ PreprocessArmor
    \/ /\ pc = "preprocess"
       /\ \E ret \in TrackerReturns : InvokeTracker(ret)
    \/ FinishProcessOne
    \/ ReturnToCaller

RecNext ==
    \E free \in FreeSpaces, img \in Images, dt \in Dts, dt2 \in Dts :
        ProcessOneFrame(free, img, dt, dt2)

\* The aiming pipeline, frame after frame.
Spec == Init /\ [][AimNext]_vars

\* The recorder, frame after frame.
SpecRec == Init /\ [][RecNext]_vars


\* ----------------------------------------------------------------- claims
ValidTeams == {"red", "blue"}

PoseFails(armor) == ~armor.pnp.retval

\* C1: a process_one call whose enemy_team is neither 'red' nor 'blue' has
\* raised as soon as it was entered: preprocess never ran, no pose was
\* estimated, the tracker was not invoked and its cross-frame state is what
\* it was before the call, the calibrator was not called, and the outcome is
\* the raised assertion, neither an AimResult nor None.
C1_BadTeamFailsImmediately ==
    (pc # "idle" /\ enemy_team \notin ValidTeams) =>
        /\ pc = "done"
        /\ result.kind = "AssertionError"
        /\ preStatus = "notcalled"
        /\ estCount = 0
        /\ ret_list = <<>>
        /\ trackerCalls = 0
        /\ trackerState = trackerAtCall
        /\ calibCalls = <<>>

\* A 'green' call made after the tracker has already seen a frame.
C1_Witness ==
    /\ pc = "done"
    /\ enemy_team = "green"
    /\ Len(pred_list) > 0
    /\ trackerState = 1
    /\ result.kind = "AssertionError"

\* C2: with a valid enemy_team, whatever the detections and the gimbal state,
\* when the tracker returned None the call returns None, without calling the
\* calibrator and without raising.
C2_TrackerNoneGivesNone ==
    (pc = "done" /\ enemy_team \in ValidTeams /\ trackerCalls = 1
        /\ target_dist_angle_tuple.isNone) =>
        /\ result.kind = "None"
        /\ calibCalls = <<>>

\* The tracker answered None on a frame of two detections, one of them with
\* a failed pose solve.
C2_Witness ==
    /\ pc = "done"
    /\ trackerCalls = 1
    /\ target_dist_angle_tuple.isNone
    /\ Len(pred_list) = 2
    /\ PoseFails(pred_list[1])
    /\ ~PoseFails(pred_list[2])
    /\ result.kind = "None"

\* C3: when the tracker returned a triple (d, p, y), the AimResult has
\* abs_pitch = p - gravity correction of d, abs_yaw = y, the raw pitch and
\* yaw kept as they came, target_dist = d, and the calibrator was called
\* exactly once, with d.
C3_AimResultFields ==
    (pc = "done" /\ trackerCalls = 1 /\ ~target_dist_angle_tuple.isNone
        /\ target_dist_angle_tuple.dist # None) =>
        LET d == target_dist_angle_tuple.dist[1]
            p == target_dist_angle_tuple.pitch[1]
            y == target_dist_angle_tuple.yaw[1]
        IN  /\ result.kind = "AimResult"
            /\ result.abs_pitch = <<p - CalibratePitchGravity(d)>>
            /\ result.abs_yaw = <<y>>
            /\ result.uncalibrated_pitch = <<p>>
            /\ result.uncalibrated_yaw = <<y>>
            /\ result.target_dist = <<d>>
            /\ calibCalls = << <<d>> >>

\* An AimResult for a target far enough for the correction to be non-zero.
C3_Witness ==
    /\ pc = "done"
    /\ result.kind = "AimResult"
    /\ result.target_dist = <<3>>
    /\ result.abs_pitch # result.uncalibrated_pitch

\* C4: preprocess never raises, and returns one ObservedArmor per detection,
\* in input order, the i-th with the i-th detection's type and bounding box,
\* a detection whose pose solve failed carrying a null pose.
C4_PreprocessOnePerDetection ==
    /\ preStatus # "raised"
    /\ preStatus = "returned" =>
          /\ Len(observed_armors) = Len(pred_list)
          /\ \A i \in 1..Len(pred_list) :
                /\ observed_armors[i].armor_type = pred_list[i].cls
                /\ observed_armors[i].bbox = pred_list[i].bbox
                /\ PoseFails(pred_list[i]) =>
                      /\ observed_armors[i].armor_xyz = None
                      /\ observed_armors[i].armor_yaw = None

\* C5: the position of every ObservedArmor whose pose solve succeeded is the
\* estimator's camera-frame position, taken through camera_to_barrel and then
\* through barrel_to_robot with the frame's gimbal yaw and pitch.
C5_BothTransformsApplied ==
    \A i \in 1..Len(ret_list) :
        ~PoseFails(pred_list[i]) =>
            ret_list[i].armor_xyz =
                BarrelToRobotT(stm32_state_dict.cur_yaw,
                               stm32_state_dict.cur_pitch,
                               CameraToBarrel(EstimatePosition(pred_list[i]).xyz))

\* C6: estimate_position never raises and has two outcomes only, (None, None)
\* or a position with a yaw; a NaN yaw gives (None, None).
C6_EstimateNeverRaises ==
    /\ ~lastEst.raised
    /\ (lastEst.xyz = None) <=> (lastEst.yaw = None)

\* C7: in a call with a valid enemy_team the tracker is invoked exactly once,
\* after the pose estimate and the transform of every detection, with the
\* complete list in input order and the frame's gimbal state, and no pose is
\* estimated afterwards.
C7_TrackerOncePerFrame ==
    /\ trackerCalls > 0 =>
          /\ trackerCalls = 1
          /\ estAtTrack = Len(pred_list)
          /\ estCount = estAtTrack
          /\ Len(observed_armors) = Len(pred_list)
          /\ observed_armors = ret_list
          /\ trackerGimbal = <<stm32_state_dict>>
    /\ (pc = "done" /\ enemy_team \in ValidTeams) => trackerCalls = 1

\* C8 as stated: a process_one_frame call made with free space below the
\* floor, a clip being open or not, writes no frame, opens no writer, leaves
\* the clip index alone and returns normally.
C8_LowSpaceNeverWrites ==
    (lastCall.called /\ lastCall.free < FreeFloorMiB) =>
        /\ ~lastCall.wrote
        /\ ~lastCall.opened
        /\ cur_video_clip_idx = lastCall.idxBefore
        /\ lastCall.outcome = "returned"

\* C8, amended: a process_one_frame call made while no clip is open and free
\* space is below the floor writes no frame, opens no writer, leaves the clip
\* index alone and returns normally.
C8_LowSpaceNoClipIdles ==
    (lastCall.called /\ lastCall.free < FreeFloorMiB /\ ~lastCall.hadWriter) =>
        /\ ~lastCall.wrote
        /\ ~lastCall.opened
        /\ cur_video_writer = None
        /\ cur_video_clip_idx = lastCall.idxBefore
        /\ lastCall.outcome = "returned"

\* Low space met between two clips: one clip is closed, none is open.
C8_Witness ==
    /\ lastCall.called
    /\ lastCall.free = FreeFloorMiB - 1
    /\ ~lastCall.hadWriter
    /\ closedCount = 1
    /\ cur_video_writer = None

\* C9: no AimResult has a null target_dist and the calibrator is never
\* called with a null distance; a tracker return that is None, or a triple
\* whose distance is None, gives None; the five fields of an AimResult come
\* from this frame's tracker return.
C9_NoNullDistance ==
    /\ \A i \in 1..Len(calibCalls) : calibCalls[i] # None
    /\ result.kind = "AimResult" =>
          /\ result.target_dist # None
          /\ result.target_dist = target_dist_angle_tuple.dist
          /\ result.uncalibrated_pitch = target_dist_angle_tuple.pitch
          /\ result.uncalibrated_yaw = target_dist_angle_tuple.yaw
          /\ result.abs_yaw = target_dist_angle_tuple.yaw
          /\ result.abs_pitch =
                <<target_dist_angle_tuple.pitch[1]
                    - CalibratePitchGravity(target_dist_angle_tuple.dist[1])>>
    /\ (pc = "done" /\ trackerCalls = 1
          /\ (target_dist_angle_tuple.isNone \/ target_dist_angle_tuple.dist = None))
          => result.kind = "None"

\* In the second frame the tracker returned a triple without a distance.
C9_Witness ==
    /\ pc = "done"
    /\ frame = 2
    /\ trackerCalls = 1
    /\ ~target_dist_angle_tuple.isNone
    /\ target_dist_angle_tuple.dist = None
    /\ result.kind = "None"

\* C10: at most one writer is open; frames go to an open writer only; the
\* clip index moves by one exactly when a writer is released, so it is the
\* number of clips closed; no file name is opened twice in a session.
C10_RecorderInvariant ==
    /\ Cardinality(openWriters) <= 1
    /\ cur_video_writer = None => openWriters = {}
    /\ cur_video_writer # None => openWriters = {cur_video_writer[1]}
    /\ ~badWrite
    /\ cur_video_clip_idx = closedCount
    /\ lastCall.called =>
          /\ cur_video_clip_idx >= lastCall.idxBefore
          /\ cur_video_clip_idx <= lastCall.idxBefore + 1
    /\ \A i, j \in 1..Len(openedNames) :
          openedNames[i] = openedNames[j] => i = j

\* Two clips closed and a third one open.
C10_Witness ==
    /\ closedCount = 2
    /\ cur_video_writer # None
    /\ Len(openedNames) = 3
    /\ lastCall.wrote

====
